---- MODULE Spec2Model ----
(***************************************************************************)
(* Model of the blog-agent HTTP service (src/main.py): module start-up,    *)
(* the health route read_root, and the generation route run_job with the   *)
(* article generator generate_article it awaits.                           *)
(*                                                                         *)
(* An Optional[...] value of the source is a sequence of length at most    *)
(* one: << >> is None (or an unset environment variable / an omitted       *)
(* query parameter), <<v>> is the value v.  An exception is a record       *)
(* [type, msg]; str(e) is its msg.                                         *)
(*                                                                         *)
(* run_job is an async handler whose only await is generate_article, which *)
(* itself never suspends (the provider call is synchronous), so one        *)
(* request is in the handler at a time; the handler is cut into steps at   *)
(* the points where the outside world is consulted (random.choice, the     *)
(* environment, the provider).                                             *)
(***************************************************************************)
EXTENDS Integers, Sequences, FiniteSets, TLC

VARIABLES
    env_key,        \* os.environ["OPENAI_API_KEY"]: << >> unset, <<"">> empty, <<k>> set
    app,            \* "init" before the module is imported, then "up" or "crashed"
    clock,          \* datetime.utcnow(), as a counter
    pc,             \* position of the request being served
    route,          \* path of the request being served
    query,          \* raw query parameters of the request, each Optional
    topic,          \* run_job's parameter/local topic (Optional[str])
    keyword,        \* run_job's parameter/local keyword (Optional[str])
    language,       \* run_job's parameter language (Optional: << >> before binding)
    min_words,      \* run_job's parameter min_words (Optional: << >> before binding)
    choice,         \* index of the pair random.choice returned, 0 when none was drawn
    picks,          \* number of random.choice calls made for this request
    gen_calls,      \* number of generate_article invocations for this request
    gen_args,       \* arguments of the generate_article invocation (Optional)
    gen_error,      \* exception generate_article ended with (Optional)
    client_calls,   \* number of client.chat.completions.create calls for this request
    sent,           \* user prompt sent to the provider (Optional)
    completion,     \* value create() returned (Optional)
    response,       \* HTTP response of the request (Optional)
    served          \* number of requests answered so far

vars == <<env_key, app, clock, pc, route, query, topic, keyword, language,
          min_words, choice, picks, gen_calls, gen_args, gen_error,
          client_calls, sent, completion, response, served>>

----------------------------------------------------------------------------
(* Bounds of the model *)

MaxRequests == 2
MaxClock == 2

----------------------------------------------------------------------------
(* Program constants *)

None == << >>
Some(v) == <<v>>

\* Python truthiness of an Optional[str]: None and "" are falsy
Truthy(o) == o # None /\ o[1] # ""

DEFAULT_TOPICS ==
    << [topic   |-> "How to start a profitable niche blog with AI",
        keyword |-> "ai niche blog"],
       [topic   |-> "Beginner's guide to affiliate marketing with low budget",
        keyword |-> "beginner affiliate marketing"],
       [topic   |-> "Best side hustles you can automate with AI tools",
        keyword |-> "automated side hustles with ai"],
       [topic   |-> "How to use ChatGPT to write product reviews that convert",
        keyword |-> "chatgpt product reviews"],
       [topic   |-> "SEO tips for small blogs in competitive niches",
        keyword |-> "seo tips for small blog"] >>

DefaultLanguage == "English"
DefaultMinWords == 1800
MinWordsGe == 500
MinWordsLe == 5000


----------------------------------------------------------------------------
(* Inputs *)

EnvKeys == {None, Some(""), Some("sk-test")}

Topics == {None, Some(""), Some("X")}
Keywords == {None, Some(""), Some("Y")}
Languages == {None, Some("French")}
MinWords == {None, Some(MinWordsGe - 1), Some(MinWordsGe), Some(900),
             Some(MinWordsLe), Some(MinWordsLe + 1)}

Queries == [topic : Topics, keyword : Keywords,
            language : Languages, min_words : MinWords]

\* what client.chat.completions.create can do: raise, or return a completion
\* whose choices carry message.content (Optional[str])
ProviderErrors == {"Connection error.", "Rate limit reached"}
Completions ==
    { [choices |-> << >>],
      [choices |-> << [content |-> None] >>],
      [choices |-> << [content |-> Some("")] >>],
      [choices |-> << [content |-> Some("ARTICLE")] >>],
      [choices |-> << [content |-> Some("ARTICLE")], [content |-> Some("SECOND")] >>] }
ProviderOutcomes ==
    { [raised |-> Some(e), completion |-> None] : e \in ProviderErrors }
    \cup { [raised |-> None, completion |-> Some(c)] : c \in Completions }

----------------------------------------------------------------------------
(* Helpers *)

\* Python's `a or b` on Optional[str]
Or(a, b) == IF Truthy(a) THEN a ELSE b

RuntimeError(m) == [type |-> "RuntimeError", msg |-> m]
IndexError(m) == [type |-> "IndexError", msg |-> m]

\* str(e)
str(e) == e.msg

\* ValidMinWords with the le=5000 constraint left out
ValidMinWordsNoUpperBound(mw) == mw = None \/ mw[1] >= MinWordsGe

\* Query(default=1800, ge=500, le=5000): an omitted min_words is valid
ValidMinWords(mw) == mw = None \/ (mw[1] >= MinWordsGe /\ mw[1] <= MinWordsLe)

\* body of the validation error the HTTP layer answers with
ValidationError(mw) ==
    IF mw[1] < MinWordsGe THEN "min_words: greater_than_equal"
                          ELSE "min_words: less_than_equal"

\* Query(default=...) binding of language and min_words
BindLanguage(l) == IF l = None THEN Some(DefaultLanguage) ELSE l
BindMinWords(mw) == IF mw = None THEN Some(DefaultMinWords) ELSE mw

\* NeedsChoice written as `if topic is None or keyword is None`
NeedsChoiceNoneOnly(t, k) == t = None \/ k = None

\* `if not topic or not keyword`
NeedsChoice(t, k) == ~Truthy(t) \/ ~Truthy(k)

\* FillTopic written as `topic = choice["topic"]`
FillTopicAlways(t, c) == Some(c.topic)

\* FillKeyword reading the keyword of the first entry instead of the chosen one
FillKeywordFromFirst(k, c) == Or(k, Some(DEFAULT_TOPICS[1].keyword))

\* `topic = topic or choice["topic"]`, `keyword = keyword or choice["keyword"]`
FillTopic(t, c) == Or(t, Some(c.topic))
FillKeyword(k, c) == Or(k, Some(c.keyword))

\* ApiKeyMissing written as `if os.getenv("OPENAI_API_KEY") is None`
ApiKeyMissingNoneOnly(k) == k = None

\* `if not os.getenv("OPENAI_API_KEY")`
ApiKeyMissing(k) == ~Truthy(k)

\* the f-string of build_prompt: the fixed template with the four values
\* substituted
build_prompt(t, k, l, mw) ==
    [language |-> l, topic |-> t, keyword |-> k, min_words |-> mw]

\* HTTP responses.  detail is the `detail` field of a JSON error body, json
\* the JSON body of a 200, text a plain-text body.
HttpResponse(st, d, j, x) == [status |-> st, detail |-> d, json |-> j, text |-> x]

\* What a request ends with when generate_article raised e inside run_job's
\* try: `except RuntimeError` turns it into HTTPException(500, detail=str(e));
\* any other exception leaves the handler and the server answers with its
\* plain "Internal Server Error".
Raised(e) ==
    IF e.type = "RuntimeError"
    THEN HttpResponse(500, Some(str(e)), None, None)
    ELSE HttpResponse(500, None, None, Some("Internal Server Error"))

\* RunResponse echoing the default language instead of the request's
RunResponseDefaultLanguage(t, k, l, mw, now, a) ==
    [topic |-> t, keyword |-> k, language |-> DefaultLanguage, min_words |-> mw,
     created_at |-> now, article_markdown |-> a]

\* RunResponse(...) as returned by run_job
RunResponse(t, k, l, mw, now, a) ==
    [topic |-> t, keyword |-> k, language |-> l, min_words |-> mw,
     created_at |-> now, article_markdown |-> a]


----------------------------------------------------------------------------
(* Initial state: the process exists, main.py has not been imported yet *)

Init ==
    /\ env_key \in EnvKeys
    /\ app = "init"
    /\ clock = 0
    /\ pc = "idle"
    /\ route = None
    /\ query = None
    /\ topic = None
    /\ keyword = None
    /\ language = None
    /\ min_words = None
    /\ choice = 0
    /\ picks = 0
    /\ gen_calls = 0
    /\ gen_args = None
    /\ gen_error = None
    /\ client_calls = 0
    /\ sent = None
    /\ completion = None
    /\ response = None
    /\ served = 0

\* The request-local state at the arrival of a request
Fresh ==
    /\ topic' = None
    /\ keyword' = None
    /\ language' = None
    /\ min_words' = None
    /\ choice' = 0
    /\ picks' = 0
    /\ gen_calls' = 0
    /\ gen_args' = None
    /\ gen_error' = None
    /\ client_calls' = 0
    /\ sent' = None
    /\ completion' = None

\* The request ends with response r
Answer(r) ==
    /\ response' = Some(r)
    /\ served' = served + 1
    /\ pc' = "done"

----------------------------------------------------------------------------
(* Start-up *)

\* Importing main.py runs `client = OpenAI()`.  The constructor belongs to
\* the openai package: it reads OPENAI_API_KEY and, in the releases that
\* export OpenAI, raises when the variable is unset (an empty value is
\* accepted).  A constructor that defers the check is admitted as well.
Startup ==
    /\ app = "init"
    /\ IF env_key = None THEN app' \in {"crashed", "up"} ELSE app' = "up"
    /\ UNCHANGED <<env_key, clock, pc, route, query, topic, keyword, language,
                   min_words, choice, picks, gen_calls, gen_args, gen_error,
                   client_calls, sent, completion, response, served>>

\* Time passes
Tick ==
    /\ clock < MaxClock
    /\ clock' = clock + 1
    /\ UNCHANGED <<env_key, app, pc, route, query, topic, keyword, language,
                   min_words, choice, picks, gen_calls, gen_args, gen_error,
                   client_calls, sent, completion, response, served>>

----------------------------------------------------------------------------
(* GET / *)

read_root ==
    /\ app = "up"
    /\ pc \in {"idle", "done"}
    /\ served < MaxRequests
    /\ route' = Some("/")
    /\ query' = None
    /\ Fresh
    /\ Answer(HttpResponse(200, None,
                           Some([status |-> "ok",
                                 message |-> "Blog agent is alive",
                                 docs |-> "/docs"]),
                           None))
    /\ UNCHANGED <<env_key, app, clock>>

----------------------------------------------------------------------------
(* GET /run *)

\* Arrival of a /run request: the HTTP layer validates the query parameters
\* against run_job's signature and either rejects the request or binds the
\* parameters (defaults resolved) and enters the handler body.
Receive ==
    /\ app = "up"
    /\ pc \in {"idle", "done"}
    /\ served < MaxRequests
    /\ \E q \in Queries :
        /\ route' = Some("/run")
        /\ query' = Some(q)
        /\ IF ValidMinWords(q.min_words)
           THEN /\ topic' = q.topic
                /\ keyword' = q.keyword
                /\ language' = BindLanguage(q.language)
                /\ min_words' = BindMinWords(q.min_words)
                /\ choice' = 0
                /\ picks' = 0
                /\ gen_calls' = 0
                /\ gen_args' = None
                /\ gen_error' = None
                /\ client_calls' = 0
                /\ sent' = None
                /\ completion' = None
                /\ response' = None
                /\ pc' = "run_job"
                /\ UNCHANGED served
           ELSE /\ Fresh
                /\ Answer(HttpResponse(422, Some(ValidationError(q.min_words)),
                                       None, None))
    /\ UNCHANGED <<env_key, app, clock>>

\* run_job, "Choose topic/keyword if not provided"
ChooseTopic ==
    /\ pc = "run_job"
    /\ IF NeedsChoice(topic, keyword)
       THEN \E i \in 1..Len(DEFAULT_TOPICS) :
                /\ choice' = i
                /\ picks' = picks + 1
                /\ topic' = FillTopic(topic, DEFAULT_TOPICS[i])
                /\ keyword' = FillKeyword(keyword, DEFAULT_TOPICS[i])
       ELSE UNCHANGED <<choice, picks, topic, keyword>>
    /\ pc' = "generate_article"
    /\ UNCHANGED <<env_key, app, clock, route, query, language, min_words,
                   gen_calls, gen_args, gen_error, client_calls, sent,
                   completion, response, served>>

\* run_job awaits generate_article: the credential check and build_prompt
EnterGenerate ==
    /\ pc = "generate_article"
    /\ gen_calls' = gen_calls + 1
    /\ gen_args' = Some([topic |-> topic, keyword |-> keyword,
                         language |-> language, min_words |-> min_words])
    /\ IF ApiKeyMissing(env_key)
       THEN LET e == RuntimeError(
                  "OPENAI_API_KEY is not set. Configure it as an environment variable.")
            IN  /\ gen_error' = Some(e)
                /\ Answer(Raised(e))
                /\ UNCHANGED sent
       ELSE /\ sent' = Some(build_prompt(topic, keyword, language, min_words))
            /\ pc' = "create"
            /\ UNCHANGED <<gen_error, response, served>>
    /\ UNCHANGED <<env_key, app, clock, route, query, topic, keyword, language,
                   min_words, choice, picks, client_calls, completion>>

\* CreateCompletion with the call repeated once after a failure
CreateCompletionRetrying ==
    /\ pc = "create"
    /\ client_calls' = client_calls + 1
    /\ \E o \in ProviderOutcomes :
        IF o.raised # None
        THEN IF client_calls = 0
             THEN UNCHANGED <<pc, gen_error, response, served, completion>>
             ELSE LET e == RuntimeError("Error calling OpenAI API: " \o o.raised[1])
                  IN  /\ gen_error' = Some(e)
                      /\ Answer(Raised(e))
                      /\ UNCHANGED completion
        ELSE /\ completion' = o.completion
             /\ pc' = "read"
             /\ UNCHANGED <<gen_error, response, served>>
    /\ UNCHANGED <<env_key, app, clock, route, query, topic, keyword, language,
                   min_words, choice, picks, gen_calls, gen_args, sent>>

\* generate_article: client.chat.completions.create(...) inside try/except
CreateCompletion ==
    /\ pc = "create"
    /\ client_calls' = client_calls + 1
    /\ \E o \in ProviderOutcomes :
        IF o.raised # None
        THEN LET e == RuntimeError("Error calling OpenAI API: " \o o.raised[1])
             IN  /\ gen_error' = Some(e)
                 /\ Answer(Raised(e))
                 /\ UNCHANGED completion
        ELSE /\ completion' = o.completion
             /\ pc' = "read"
             /\ UNCHANGED <<gen_error, response, served>>
    /\ UNCHANGED <<env_key, app, clock, route, query, topic, keyword, language,
                   min_words, choice, picks, gen_calls, gen_args, sent>>

\* generate_article: `article = completion.choices[0].message.content`, the
\* emptiness check and the return; then run_job builds its RunResponse
ReadArticle ==
    /\ pc = "read"
    /\ LET choices == completion[1].choices IN
       IF Len(choices) = 0
       THEN LET e == IndexError("list index out of range")
            IN  /\ gen_error' = Some(e)
                /\ Answer(Raised(e))
       ELSE LET article == choices[1].content IN
            IF ~Truthy(article)
            THEN LET e == RuntimeError("OpenAI returned an empty article.")
                 IN  /\ gen_error' = Some(e)
                     /\ Answer(Raised(e))
            ELSE /\ UNCHANGED gen_error
                 /\ Answer(HttpResponse(200, None,
                        Some(RunResponse(topic[1], keyword[1], language[1],
                                         min_words[1], clock, article[1])),
                        None))
    /\ UNCHANGED <<env_key, app, clock, route, query, topic, keyword, language,
                   min_words, choice, picks, gen_calls, gen_args, client_calls,
                   sent, completion>>

----------------------------------------------------------------------------

Next ==
    \/ Startup
    \/ Tick
    \/ read_root
    \/ Receive
    \/ ChooseTopic
    \/ EnterGenerate
    \/ CreateCompletion
    \/ ReadArticle

Spec == Init /\ [][Next]_vars


----------------------------------------------------------------------------
(* Vocabulary of the properties *)

RunRoute == route = Some("/run")

\* the /run request has been answered
RunDone == RunRoute /\ pc = "done"

\* the handler body is past the fallback selection
Resolved ==
    /\ RunRoute
    /\ \/ pc \in {"generate_article", "create", "read"}
       \/ pc = "done" /\ gen_calls > 0

\* a query parameter that is neither omitted nor the empty string
Supplied(o) == o # None /\ o # Some("")

ConfigurationMsg ==
    "OPENAI_API_KEY is not set. Configure it as an environment variable."
EmptyArticleMsg == "OpenAI returned an empty article."

\* the provider returned, and what it returned has no text to read
NoText(c) == Len(c.choices) = 0 \/ c.choices[1].content \in {None, Some("")}

----------------------------------------------------------------------------
(* C1: whenever generate_article fails for a validated /run request, the   *)
(* request ends with HTTP 500 whose body has a detail field equal to the   *)
(* stringified error, never with a 200 or a partial result.                *)
GeneratorFailureIs500WithDetail ==
    (RunDone /\ gen_error # None) =>
        /\ response[1].status = 500
        /\ response[1].detail = Some(gen_error[1].msg)
        /\ response[1].json = None

(* C2: a /run request whose min_words is below 500 or above 5000 is        *)
(* rejected with a validation error before the handler body runs: no       *)
(* generate_article invocation, no fallback selection, no provider call.   *)
OutOfRange(q) ==
    q.min_words # None /\ (q.min_words[1] < 500 \/ q.min_words[1] > 5000)

OutOfRangeRejectedBeforeHandler ==
    (RunRoute /\ OutOfRange(query[1])) =>
        /\ pc = "done"
        /\ response[1].status = 422
        /\ response[1].detail # None
        /\ gen_calls = 0
        /\ picks = 0
        /\ client_calls = 0
        /\ sent = None

OutOfRangeRejectedSeen ==
    /\ RunDone
    /\ query[1].min_words = Some(5001)
    /\ response[1].status = 422
    /\ gen_calls = 0

(* C3: when OPENAI_API_KEY is unset or empty as generate_article is        *)
(* called, generate_article fails with the configuration error and no      *)
(* provider call is made for that request.                                 *)
MissingKeyFailsBeforeProviderCall ==
    (RunRoute /\ gen_calls > 0 /\ env_key \in {None, Some("")}) =>
        /\ client_calls = 0
        /\ sent = None
        /\ completion = None
        /\ gen_error = Some(RuntimeError(ConfigurationMsg))
        /\ pc = "done"

EmptyKeyFailureSeen ==
    /\ RunDone
    /\ gen_calls = 1
    /\ env_key = Some("")
    /\ client_calls = 0
    /\ response[1].detail = Some(ConfigurationMsg)

(* C4: when topic or keyword is missing (omitted or empty), exactly one    *)
(* fallback pair is selected and only the missing fields are filled from   *)
(* it: a supplied field reaches the generator and the response unchanged,  *)
(* and two missing fields come from the same entry.  When both are         *)
(* supplied no pair is selected and both are used unchanged.               *)
OnlyMissingFieldsFilled ==
    Resolved =>
        LET q == query[1] IN
        /\ Supplied(q.topic) => topic = q.topic
        /\ Supplied(q.keyword) => keyword = q.keyword
        /\ (Supplied(q.topic) /\ Supplied(q.keyword)) => (picks = 0 /\ choice = 0)
        /\ (~Supplied(q.topic) \/ ~Supplied(q.keyword)) =>
              (picks = 1 /\ choice \in 1..Len(DEFAULT_TOPICS))
        /\ ~Supplied(q.topic) => topic = Some(DEFAULT_TOPICS[choice].topic)
        /\ ~Supplied(q.keyword) => keyword = Some(DEFAULT_TOPICS[choice].keyword)
        /\ gen_calls > 0 =>
              (gen_args[1].topic = topic /\ gen_args[1].keyword = keyword)
        /\ (pc = "done" /\ response[1].status = 200) =>
              /\ response[1].json[1].topic = topic[1]
              /\ response[1].json[1].keyword = keyword[1]

SuppliedTopicKeptSeen ==
    /\ RunDone
    /\ response[1].status = 200
    /\ query[1].topic = Some("X")
    /\ query[1].keyword = None
    /\ picks = 1
    /\ response[1].json[1].topic = "X"
    /\ response[1].json[1].keyword = DEFAULT_TOPICS[choice].keyword

(* C5 as stated: when either topic or keyword is absent, both resolved    *)
(* fields are those of the selected fallback pair, so a custom topic is    *)
(* never combined with a fallback keyword.                                 *)
BothFieldsReplacedWhenEitherAbsent ==
    (Resolved /\ (~Supplied(query[1].topic) \/ ~Supplied(query[1].keyword))) =>
        /\ choice \in 1..Len(DEFAULT_TOPICS)
        /\ topic = Some(DEFAULT_TOPICS[choice].topic)
        /\ keyword = Some(DEFAULT_TOPICS[choice].keyword)

(* C5 amended: when either topic or keyword is absent, one fallback pair  *)
(* is selected; the resolved pair is that entry of DEFAULT_TOPICS when     *)
(* both are absent, and when exactly one is absent the supplied field is   *)
(* kept and paired with the other field of the selected entry.             *)
AbsentFieldsTakenFromOnePair ==
    (Resolved /\ (~Supplied(query[1].topic) \/ ~Supplied(query[1].keyword))) =>
        LET q == query[1]
            c == DEFAULT_TOPICS[choice]
        IN  /\ picks = 1
            /\ (~Supplied(q.topic) /\ ~Supplied(q.keyword)) =>
                  [topic |-> topic[1], keyword |-> keyword[1]] = c
            /\ (Supplied(q.topic) /\ ~Supplied(q.keyword)) =>
                  [topic |-> topic[1], keyword |-> keyword[1]]
                      = [topic |-> q.topic[1], keyword |-> c.keyword]
            /\ (~Supplied(q.topic) /\ Supplied(q.keyword)) =>
                  [topic |-> topic[1], keyword |-> keyword[1]]
                      = [topic |-> c.topic, keyword |-> q.keyword[1]]

BothAbsentSamePairSeen ==
    /\ Resolved
    /\ query[1].topic = None
    /\ query[1].keyword = None
    /\ choice = 3
    /\ topic = Some(DEFAULT_TOPICS[3].topic)
    /\ keyword = Some(DEFAULT_TOPICS[3].keyword)

(* C6: a /run invocation makes at most one provider call on every path: a  *)
(* failed call is not retried and no second call follows one that has      *)
(* returned or failed.                                                     *)
AtMostOneProviderCall ==
    /\ client_calls <= 1
    /\ client_calls = 1 => (RunRoute /\ pc \in {"read", "done"})

FailedCallNotRetriedSeen ==
    /\ RunDone
    /\ client_calls = 1
    /\ gen_error = Some(RuntimeError("Error calling OpenAI API: Connection error."))

(* C7: a 200 response of /run carries the values the generator was invoked *)
(* with: the resolved topic and keyword, the request's language and        *)
(* min_words ("English" and 1800 when omitted), and the provider's text    *)
(* unmodified.                                                             *)
SuccessEchoesGeneratorArguments ==
    (RunDone /\ response[1].status = 200) =>
        LET b == response[1].json[1]
            q == query[1]
            a == gen_args[1]
        IN  /\ gen_calls = 1
            /\ b.topic = a.topic[1]
            /\ b.keyword = a.keyword[1]
            /\ b.language = a.language[1]
            /\ b.min_words = a.min_words[1]
            /\ sent = Some(build_prompt(a.topic, a.keyword, a.language, a.min_words))
            /\ b.topic = (IF Supplied(q.topic) THEN q.topic[1]
                          ELSE DEFAULT_TOPICS[choice].topic)
            /\ b.keyword = (IF Supplied(q.keyword) THEN q.keyword[1]
                            ELSE DEFAULT_TOPICS[choice].keyword)
            /\ b.language = (IF q.language = None THEN "English" ELSE q.language[1])
            /\ b.min_words = (IF q.min_words = None THEN 1800 ELSE q.min_words[1])
            /\ completion # None
            /\ b.article_markdown = completion[1].choices[1].content[1]

DefaultsEchoedSeen ==
    /\ RunDone
    /\ response[1].status = 200
    /\ query[1] = [topic |-> None, keyword |-> None,
                   language |-> None, min_words |-> None]
    /\ response[1].json[1].language = "English"
    /\ response[1].json[1].min_words = 1800
    /\ response[1].json[1].article_markdown = "ARTICLE"

(* C8: whenever the provider call returns without raising but yields no    *)
(* text (no choice, or a first choice whose content is null or empty),     *)
(* generate_article fails with the empty-response error; so a 200 of /run  *)
(* never has an empty article_markdown.                                    *)
NoTextIsEmptyResponseError ==
    /\ (RunDone /\ completion # None /\ NoText(completion[1])) =>
          gen_error = Some(RuntimeError(EmptyArticleMsg))
    /\ (RunDone /\ response[1].status = 200) =>
          response[1].json[1].article_markdown # ""

(* C9: with OPENAI_API_KEY unset the service still starts and serves the   *)
(* health route; the missing credential shows only as the configuration    *)
(* error of a /run request that reaches the generator.                     *)
UnsetKeyServiceStillStarts ==
    env_key = None =>
        /\ app # "crashed"
        /\ (RunDone /\ gen_calls > 0) => response[1].detail = Some(ConfigurationMsg)

(* C10: generate_article is never invoked with an empty topic or keyword:  *)
(* an empty string is treated like an omitted parameter and replaced from  *)
(* the selected fallback pair, so both are non-empty at the generator call *)
(* and in any 200 response.                                                *)
GeneratorNeverGetsEmptyField ==
    /\ gen_args # None =>
          /\ gen_args[1].topic \notin {None, Some("")}
          /\ gen_args[1].keyword \notin {None, Some("")}
    /\ (Resolved /\ query[1].topic = Some("")) =>
          (picks = 1 /\ topic = Some(DEFAULT_TOPICS[choice].topic))
    /\ (Resolved /\ query[1].keyword = Some("")) =>
          (picks = 1 /\ keyword = Some(DEFAULT_TOPICS[choice].keyword))
    /\ (RunDone /\ response[1].status = 200) =>
          /\ response[1].json[1].topic # ""
          /\ response[1].json[1].keyword # ""
    /\ \A i \in 1..Len(DEFAULT_TOPICS) :
          DEFAULT_TOPICS[i].topic # "" /\ DEFAULT_TOPICS[i].keyword # ""

EmptyTopicReplacedSeen ==
    /\ RunDone
    /\ response[1].status = 200
    /\ query[1].topic = Some("")
    /\ query[1].keyword = Some("Y")
    /\ gen_args[1].topic = Some(DEFAULT_TOPICS[choice].topic)
    /\ gen_args[1].keyword = Some("Y")

====
